---- MODULE Spec2Model ----
(***************************************************************************)
(* The two server programs of the repository:                              *)
(*   "cached"  the caching image server (src/unnamed/part_000): an         *)
(*             in-memory cache of S3 listings refreshed by two 45 s        *)
(*             timers and by lazy population from the folder route;        *)
(*   "direct"  src/server.js: the same routes, each awaiting S3.           *)
(* One behaviour runs one of the two programs from process start.          *)
(*                                                                         *)
(* Representation of strings.  An object key "d1/d2/n.jpg" is the record   *)
(* [dir |-> <<"d1","d2">>, name |-> n]; a folder path captured by the      *)
(* route's (.+) is the sequence of its segments, so that the S3 prefix     *)
(* `${folder}/` matches a key exactly when the folder's segments are a     *)
(* prefix of the key's directory segments.                                 *)
(***************************************************************************)
EXTENDS Integers, Sequences, FiniteSets, Bags, TLC

VARIABLES
    entry,          \* which program file node runs: "cached" or "direct"
    env,            \* names of the environment variables that are set
    pc,             \* position of the module's top-level code
    envIdx,         \* index of requiredEnv.forEach
    listening,      \* app.listen has been called
    timers,         \* the two setInterval timers are registered
    tickPhase,      \* which of the two 45 s timers fires next
    bucket,         \* the objects the backing store holds, in listing order
    cachedImages,   \* let cachedImages
    cachedFolders,  \* let cachedFolders (own properties only)
    calls,          \* store calls in flight: a bag, as any of them may complete next
    hits,           \* express-rate-limit: hits per client in the current window
    ev,             \* history: what the last step did (response sent, refresh outcome)
    requested,      \* history: folders some client has asked for
    failed,         \* history: folders without entry whose last completed population failed
    issued,         \* history: a store call has been issued since process start
    ticked,         \* history: a folder tick has fired since the last first request of a folder
    fired,          \* history: one of the two timers has fired
    apiCount,       \* history: requests of each client to /api/ paths in its window
    fullOK          \* history: Contents of the latest successfully completed refreshImages

vars == <<entry, env, pc, envIdx, listening, timers, tickPhase, bucket,
          cachedImages, cachedFolders, calls, hits, ev, requested, failed, issued, ticked,
          fired, apiCount, fullOK>>

\* ---------------------------------------------------------------- bounds
\* store calls in flight at one time
MaxInflight == 2

\* requests one client sends to /api/ in one rate-limit window, where the
\* specification is not about the limiter
MaxBurst == 1

\* ------------------------------------------------------- configuration
requiredEnv == <<"AWS_BUCKET", "AWS_REGION", "AWS_ACCESS_KEY", "AWS_SECRET_KEY">>

RequiredSet == {requiredEnv[i] : i \in 1..Len(requiredEnv)}

\* default MaxKeys of listObjects
MaxKeys == 1000

\* rateLimit({ max: 60 })
RateMax == 60

Clients == {"c1", "c2"}

Min(a, b) == IF a <= b THEN a ELSE b

IsPrefix(p, s) == Len(p) <= Len(s) /\ SubSeq(s, 1, Len(p)) = p

\* ------------------------------------------------------------ the store
\* the object "dir/n.jpg"
K(dir, n) == [dir |-> dir, name |-> n]

\* process.env.AWS_BUCKET and process.env.AWS_REGION
BucketName == "bkt"

Region == "r1"

\* the store of the spec's example: a/1.jpg, a/2.jpg, b/1.jpg
SmallBucket == <<K(<<"a">>, 1), K(<<"a">>, 2), K(<<"b">>, 1)>>

\* the same bucket after a/2.jpg and b/1.jpg were deleted: nothing is left under b/
AltBucket == <<K(<<"a">>, 1)>>

\* one object more than a page holds, all under a/
BigBucket == [i \in 1..(MaxKeys + 1) |-> K(<<"a">>, i)]

\* the contents the bucket has at startup
Buckets == {SmallBucket, AltBucket}

\* folder paths a client asks for
FolderNames == {<<"a">>, <<"b">>, <<"constructor">>}

\* S3 ListObjectsV2: the keys under Prefix in listing order, at most MaxKeys of
\* them from the continuation token on; Contents is omitted when no key matches
S3ListObjectsV2(objects, Prefix, maxKeys, ContinuationToken) ==
    LET matching == SelectSeq(objects, LAMBDA k : IsPrefix(Prefix, k.dir))
        rest     == SubSeq(matching, ContinuationToken + 1, Len(matching))
        page     == SubSeq(rest, 1, Min(maxKeys, Len(rest)))
    IN  [hasContents |-> page # <<>>,
         Contents    |-> page,
         IsTruncated |-> Len(rest) > maxKeys]

NoData == [hasContents |-> FALSE, Contents |-> <<>>, IsTruncated |-> FALSE]

\* listObjects({ Bucket, Prefix = "", MaxKeys = 1000, ContinuationToken = undefined }):
\* the command it sends; neither caller passes MaxKeys or ContinuationToken
listObjects(owner, Prefix, client) ==
    [owner |-> owner, Prefix |-> Prefix, MaxKeys |-> MaxKeys, ContinuationToken |-> 0,
     client |-> client, state |-> "sent", data |-> NoData, first |-> FALSE]

\* `https://${AWS_BUCKET}.s3.${AWS_REGION}.amazonaws.com/${file.Key}`
Url(key) == <<"https://", BucketName, ".s3.", Region, ".amazonaws.com/", key>>

Entry(key) == [key |-> key, url |-> Url(key)]

\* data.Contents?.map((file) => ({ key, url })) || []
MapContents(data) ==
    IF data.hasContents
    THEN [i \in 1..Len(data.Contents) |-> Entry(data.Contents[i])]
    ELSE <<>>

\* ------------------------------------------------------------ the cache
\* cachedFolders is a plain object: own properties in insertion order, and
\* property reads that fall through to Object.prototype
ObjectPrototypeKeys == {<<"constructor">>, <<"toString">>, <<"__proto__">>}

OwnIndex(obj, name) ==
    IF \E i \in 1..Len(obj) : obj[i].name = name
    THEN CHOOSE i \in 1..Len(obj) : obj[i].name = name
    ELSE 0

\* Object.keys(cachedFolders)
ObjectKeys(obj) == [i \in 1..Len(obj) |-> obj[i].name]

\* cachedFolders[folder]
Lookup(obj, name) ==
    IF OwnIndex(obj, name) # 0
    THEN [kind |-> "array", val |-> obj[OwnIndex(obj, name)].val]
    ELSE IF name \in ObjectPrototypeKeys
         THEN [kind |-> "inherited", val |-> <<>>]
         ELSE [kind |-> "undefined", val |-> <<>>]

\* a test that takes an empty listing for a missing one
Truthy_NonEmpty(v) == v.kind # "undefined" /\ ~(v.kind = "array" /\ v.val = <<>>)

\* !cachedFolders[folder] is false for arrays (also empty ones) and inherited members
Truthy(v) == v.kind # "undefined"

\* cachedFolders[folder] = val
SetProperty(obj, name, val) ==
    IF OwnIndex(obj, name) # 0
    THEN [obj EXCEPT ![OwnIndex(obj, name)].val = val]
    ELSE Append(obj, [name |-> name, val |-> val])

\* ------------------------------------------------------- history records
NoBody == [kind |-> "none", val |-> <<>>]

ArrayBody(val) == [kind |-> "array", val |-> val]

\* what a step did: op is the handler or function that ran; status and body are
\* the HTTP response it sent (status 0: none); started counts the refreshFolder
\* calls it started; awaited says that a store call completed between the
\* arrival of the request and its response; outcome is a refresh's result
\* first says that no earlier request for the folder had reached the route
Ev(op, client, folder, status, body, started, awaited, outcome) ==
    [op |-> op, client |-> client, folder |-> folder, status |-> status,
     body |-> body, started |-> started, awaited |-> awaited, outcome |-> outcome,
     first |-> FALSE]

Step(op) == Ev(op, "-", <<>>, 0, NoBody, 0, FALSE, "-")

NoFull == [any |-> FALSE, contents |-> <<>>]

\* ---------------------------------------------------------------- Init
InitFrom(envs, buckets) ==
    /\ entry \in {"cached", "direct"}
    /\ env \in envs
    /\ pc = "checkenv"
    /\ envIdx = 1
    /\ listening = FALSE
    /\ timers = FALSE
    /\ tickPhase = "images"
    /\ bucket \in buckets
    /\ cachedImages = <<>>
    /\ cachedFolders = <<>>
    /\ calls = EmptyBag
    /\ hits = [c \in Clients |-> 0]
    /\ ev = Step("none")
    /\ requested = {}
    /\ failed = {}
    /\ issued = FALSE
    /\ ticked = FALSE
    /\ fired = FALSE
    /\ apiCount = [c \in Clients |-> 0]
    /\ fullOK = NoFull

Init == InitFrom(SUBSET RequiredSet, Buckets)

\* --------------------------------------------------------------- startup
\* a check that logs the unset name and goes on
CheckEnv_NoExit ==
    /\ pc = "checkenv"
    /\ ev' = Step("boot")
    /\ IF envIdx < Len(requiredEnv)
       THEN envIdx' = envIdx + 1 /\ UNCHANGED pc
       ELSE /\ pc' = IF entry = "cached" THEN "initial" ELSE "listen"
            /\ UNCHANGED envIdx
    /\ UNCHANGED <<entry, env, listening, timers, tickPhase, bucket, cachedImages,
                   cachedFolders, calls, hits, requested, failed, issued, fullOK, ticked,
                   fired, apiCount>>

\* one iteration of requiredEnv.forEach: process.exit(1) on the first unset name
CheckEnv ==
    /\ pc = "checkenv"
    /\ IF requiredEnv[envIdx] \notin env
       THEN /\ pc' = "exited"
            /\ ev' = Step("exit")
            /\ UNCHANGED envIdx
       ELSE /\ ev' = Step("boot")
            /\ IF envIdx < Len(requiredEnv)
               THEN envIdx' = envIdx + 1 /\ UNCHANGED pc
               ELSE /\ pc' = IF entry = "cached" THEN "initial" ELSE "listen"
                    /\ UNCHANGED envIdx
    /\ UNCHANGED <<entry, env, listening, timers, tickPhase, bucket, cachedImages,
                   cachedFolders, calls, hits, requested, failed, issued, fullOK,
                   ticked, fired, apiCount>>

\* the start of refreshImages, up to its await: one store call for the whole bucket
StartRefreshImages(q) == q (+) SetToBag({listObjects("refreshImages", <<>>, "-")})

\* a refreshFolder that does nothing while a call for the folder is unanswered
StartRefreshFolder_Dedup(q, folder) ==
    IF BagIn(listObjects("refreshFolder", folder, "-"), q) THEN q
    ELSE q (+) SetToBag({listObjects("refreshFolder", folder, "-")})

\* the start of refreshFolder(folder), up to its await: Prefix `${folder}/`
StartRefreshFolder(q, folder) == q (+) SetToBag({listObjects("refreshFolder", folder, "-")})

\* a startup that leaves the first refreshImages to the timer
InitialRefresh_Deferred ==
    /\ pc = "initial"
    /\ pc' = "timers"
    /\ ev' = Step("boot")
    /\ UNCHANGED <<entry, env, envIdx, listening, timers, tickPhase, bucket, cachedImages,
                   cachedFolders, calls, hits, requested, failed, issued, fullOK, ticked,
                   fired, apiCount>>

\* "Initial cache": refreshImages()
InitialRefresh ==
    /\ pc = "initial"
    /\ pc' = "timers"
    /\ calls' = StartRefreshImages(calls)
    /\ issued' = TRUE
    /\ ev' = Step("boot")
    /\ UNCHANGED <<entry, env, envIdx, listening, timers, tickPhase, bucket,
                   cachedImages, cachedFolders, hits, requested, failed, fullOK, ticked,
                   fired, apiCount>>

\* the two setInterval(..., 45 * 1000)
SetTimers ==
    /\ pc = "timers"
    /\ pc' = "listen"
    /\ timers' = TRUE
    /\ ev' = Step("boot")
    /\ UNCHANGED <<entry, env, envIdx, listening, tickPhase, bucket, cachedImages,
                   cachedFolders, calls, hits, requested, failed, issued, fullOK,
                   ticked, fired, apiCount>>

\* app.listen(PORT): the end of the module's top-level code
Listen ==
    /\ pc = "listen"
    /\ pc' = "running"
    /\ listening' = TRUE
    /\ ev' = Step("boot")
    /\ UNCHANGED <<entry, env, envIdx, timers, tickPhase, bucket, cachedImages,
                   cachedFolders, calls, hits, requested, failed, issued, fullOK,
                   ticked, fired, apiCount>>

\* ---------------------------------------------------------------- timers
\* setInterval(refreshImages, 45 * 1000) fires
TickImages ==
    /\ pc = "running"
    /\ timers
    /\ tickPhase = "images"
    /\ BagCardinality(calls) < MaxInflight
    /\ tickPhase' = "folders"
    /\ calls' = StartRefreshImages(calls)
    /\ issued' = TRUE
    /\ fired' = TRUE
    /\ ev' = Step("tickImages")
    /\ UNCHANGED <<entry, env, pc, envIdx, listening, timers, bucket, cachedImages,
                   cachedFolders, hits, requested, failed, fullOK, ticked, apiCount>>

\* a folder timer that refreshes the first key only
StartAll_OnlyFirst(q, names) ==
    IF names = <<>> THEN q ELSE StartRefreshFolder(q, Head(names))

\* a folder timer that refreshes the whole key list once per key
StartAll_PerKey(q, names) ==
    IF names = <<>> THEN q
    ELSE StartRefreshFolder(StartRefreshFolder(q, Head(names)), names[Len(names)])

RECURSIVE StartAll(_, _)
\* Object.keys(cachedFolders).forEach(folder => refreshFolder(folder))
StartAll(q, names) ==
    IF names = <<>> THEN q
    ELSE StartAll(StartRefreshFolder(q, Head(names)), Tail(names))

\* the second 45 s timer fires
TickFolders ==
    /\ pc = "running"
    /\ timers
    /\ tickPhase = "folders"
    /\ BagCardinality(calls) + Len(cachedFolders) <= MaxInflight
    /\ tickPhase' = "images"
    /\ calls' = StartAll(calls, ObjectKeys(cachedFolders))
    /\ issued' = (issued \/ cachedFolders # <<>>)
    /\ ticked' = (requested # {})
    /\ fired' = TRUE
    /\ ev' = [Step("tickFolders") EXCEPT !.started = Len(cachedFolders)]
    /\ UNCHANGED <<entry, env, pc, envIdx, listening, timers, bucket, cachedImages,
                   cachedFolders, hits, requested, failed, fullOK, apiCount>>

\* ------------------------------------------------------------- the store
\* the objects of the bucket change while the server runs: a/2.jpg and b/1.jpg
\* are deleted by another party
StoreChange ==
    /\ bucket = SmallBucket
    /\ bucket' = AltBucket
    /\ ev' = Step("store")
    /\ UNCHANGED <<entry, env, pc, envIdx, listening, timers, tickPhase, cachedImages,
                   cachedFolders, calls, hits, requested, failed, issued, fullOK,
                   ticked, fired, apiCount>>

\* s3.send(command): the store answers call i with a page of its current
\* objects.  A call that is never answered fails instead (network, auth,
\* throttling, timeout): its awaiting function then resumes in its catch.
S3Send(call) ==
    /\ BagIn(call, calls)
    /\ call.state = "sent"
    /\ calls' = (calls (-) SetToBag({call})) (+)
                SetToBag({[call EXCEPT !.state = "ok",
                                       !.data = S3ListObjectsV2(bucket, call.Prefix,
                                                    call.MaxKeys, call.ContinuationToken)]})
    /\ ev' = Step("s3")
    /\ UNCHANGED <<entry, env, pc, envIdx, listening, timers, tickPhase, bucket,
                   cachedImages, cachedFolders, hits, requested, failed, issued, fullOK,
                   ticked, fired, apiCount>>

\* the call is no longer in flight: its awaiting function resumes
Resumed(q, call) == q (-) SetToBag({call})

\* ---------------------------------------------------- refresh completion
\* a refreshImages that adds the new entries to the old ones
AfterRefreshImages_Append(cur, call) ==
    IF call.state = "ok" THEN cur \o MapContents(call.data) ELSE cur

\* a refreshImages that fills the listing only while it is empty
AfterRefreshImages_KeepFilled(cur, call) ==
    IF call.state = "ok" /\ cur = <<>> THEN MapContents(call.data) ELSE cur

\* refreshImages after its await: the assignment in the try block, or the catch
AfterRefreshImages(cur, call) ==
    IF call.state = "ok" THEN MapContents(call.data) ELSE cur

\* a refreshFolder whose catch empties the folder's entry
AfterRefreshFolder_ClearOnFail(obj, call) ==
    IF call.state = "ok" THEN SetProperty(obj, call.Prefix, MapContents(call.data))
    ELSE SetProperty(obj, call.Prefix, <<>>)

\* a refreshFolder that pushes the new entries onto the entry it finds
AfterRefreshFolder_Push(obj, call) ==
    IF call.state = "ok"
    THEN SetProperty(obj, call.Prefix, Lookup(obj, call.Prefix).val \o MapContents(call.data))
    ELSE obj

\* a refreshFolder whose catch records a folder without entry as empty
AfterRefreshFolder_EmptyOnFirstFail(obj, call) ==
    IF call.state = "ok" THEN SetProperty(obj, call.Prefix, MapContents(call.data))
    ELSE IF OwnIndex(obj, call.Prefix) = 0 THEN SetProperty(obj, call.Prefix, <<>>)
    ELSE obj

\* a refreshFolder that assigns a new object holding the one folder
AfterRefreshFolder_NewObject(obj, call) ==
    IF call.state = "ok" THEN <<[name |-> call.Prefix, val |-> MapContents(call.data)]>>
    ELSE obj

\* refreshFolder after its await
AfterRefreshFolder(obj, call) ==
    IF call.state = "ok" THEN SetProperty(obj, call.Prefix, MapContents(call.data)) ELSE obj

Outcome(call) == IF call.state = "ok" THEN "ok" ELSE "fail"

RefreshImagesDone(call) ==
    /\ pc = "running"
    /\ BagIn(call, calls)
    /\ call.owner = "refreshImages"
    /\ cachedImages' = AfterRefreshImages(cachedImages, call)
    /\ fullOK' = IF call.state = "ok"
                 THEN [any |-> TRUE, contents |-> call.data.Contents]
                 ELSE fullOK
    /\ calls' = Resumed(calls, call)
    /\ ev' = [Step("refreshImages") EXCEPT !.outcome = Outcome(call)]
    /\ UNCHANGED <<entry, env, pc, envIdx, listening, timers, tickPhase, bucket,
                   cachedFolders, hits, requested, failed, issued, ticked, fired, apiCount>>

\* a refreshFolder without its try/catch: the rejection of the store call is
\* unhandled and ends the process
RefreshFolderDone_Uncaught(call) ==
    /\ pc = "running"
    /\ BagIn(call, calls)
    /\ call.owner = "refreshFolder"
    /\ cachedFolders' = AfterRefreshFolder(cachedFolders, call)
    /\ calls' = Resumed(calls, call)
    /\ pc' = IF call.state = "ok" THEN pc ELSE "exited"
    /\ ev' = [Step("refreshFolder") EXCEPT !.outcome = Outcome(call),
                                            !.folder = call.Prefix]
    /\ failed' = IF call.state = "ok" THEN failed \ {call.Prefix}
                 ELSE IF OwnIndex(cachedFolders, call.Prefix) = 0
                      THEN failed \cup {call.Prefix}
                      ELSE failed
    /\ UNCHANGED <<entry, env, envIdx, listening, timers, tickPhase, bucket,
                   cachedImages, hits, requested, issued, fullOK,
                   ticked, fired, apiCount>>

RefreshFolderDone(call) ==
    /\ pc = "running"
    /\ BagIn(call, calls)
    /\ call.owner = "refreshFolder"
    /\ cachedFolders' = AfterRefreshFolder(cachedFolders, call)
    /\ calls' = Resumed(calls, call)
    /\ ev' = [Step("refreshFolder") EXCEPT !.outcome = Outcome(call),
                                            !.folder = call.Prefix]
    /\ failed' = IF call.state = "ok" THEN failed \ {call.Prefix}
                 ELSE IF OwnIndex(cachedFolders, call.Prefix) = 0
                      THEN failed \cup {call.Prefix}
                      ELSE failed
    /\ UNCHANGED <<entry, env, pc, envIdx, listening, timers, tickPhase, bucket,
                   cachedImages, hits, requested, issued, fullOK,
                   ticked, fired, apiCount>>

\* ------------------------------------------------------------ rate limit
\* app.use("/api/", apiLimiter): the paths the limiter is mounted on
LimiterMount == <<"api">>

Mounted(path) == IsPrefix(LimiterMount, path)

\* a limiter that lets max + 1 requests through
Limited_OffByOne(h, path) == Mounted(path) /\ h > RateMax

\* apiLimiter: the request is rejected when it is beyond max in the window
Limited(h, path) == Mounted(path) /\ h + 1 > RateMax

\* the hit count after the request (counts beyond max + 1 behave alike)
Hit(h, path) == IF Mounted(path) THEN Min(h + 1, RateMax + 1) ELSE h

TooMany == [kind |-> "tooManyRequests", val |-> <<>>]

\* windowMs has elapsed for client c
WindowReset(c) ==
    /\ hits[c] > 0
    /\ hits' = [hits EXCEPT ![c] = 0]
    /\ apiCount' = [apiCount EXCEPT ![c] = 0]
    /\ ev' = [Step("windowReset") EXCEPT !.client = c]
    /\ UNCHANGED <<entry, env, pc, envIdx, listening, timers, tickPhase, bucket,
                   cachedImages, cachedFolders, calls, requested, failed, issued, fullOK,
                   ticked, fired>>

\* ---------------------------------------------------------------- routes
RootPath == <<>>

ImagesPath == <<"api", "images">>

FolderPath(folder) == ImagesPath \o folder

\* app.get("/")
GetRoot(c) ==
    /\ pc = "running"
    /\ hits' = [hits EXCEPT ![c] = Hit(@, RootPath)]
    /\ ev' = IF Limited(hits[c], RootPath)
             THEN Ev("GET /", c, <<>>, 429, TooMany, 0, FALSE, "-")
             ELSE Ev("GET /", c, <<>>, 200, [kind |-> "message", val |-> <<>>], 0, FALSE, "-")
    /\ UNCHANGED <<entry, env, pc, envIdx, listening, timers, tickPhase, bucket,
                   cachedImages, cachedFolders, calls, requested, failed, issued, fullOK,
                   ticked, fired, apiCount>>

\* part_000: app.get("/api/images"): res.json(cachedImages)
GetImagesCached(c) ==
    /\ pc = "running"
    /\ entry = "cached"
    /\ hits' = [hits EXCEPT ![c] = Hit(@, ImagesPath)]
    /\ apiCount' = [apiCount EXCEPT ![c] = Min(@ + 1, RateMax + 1)]
    /\ ev' = IF Limited(hits[c], ImagesPath)
             THEN Ev("GET /api/images", c, <<>>, 429, TooMany, 0, FALSE, "-")
             ELSE Ev("GET /api/images", c, <<>>, 200, ArrayBody(cachedImages), 0, FALSE, "-")
    /\ UNCHANGED <<entry, env, pc, envIdx, listening, timers, tickPhase, bucket,
                   cachedImages, cachedFolders, calls, requested, failed, issued, fullOK,
                   ticked, fired>>

\* what res.json sends for the value read from cachedFolders
FolderBody(v) == IF v.kind = "array" THEN ArrayBody(v.val) ELSE [kind |-> v.kind, val |-> <<>>]

\* part_000: app.get(/^\/api\/images\/(.+)$/)
GetFolderCached(c, folder) ==
    /\ pc = "running"
    /\ entry = "cached"
    /\ hits' = [hits EXCEPT ![c] = Hit(@, FolderPath(folder))]
    /\ apiCount' = [apiCount EXCEPT ![c] = Min(@ + 1, RateMax + 1)]
    /\ ticked' = IF Limited(hits[c], FolderPath(folder)) \/ folder \in requested
                 THEN ticked ELSE FALSE
    /\ IF Limited(hits[c], FolderPath(folder))
       THEN /\ ev' = Ev("GET /api/images/(.+)", c, folder, 429, TooMany, 0, FALSE, "-")
            /\ UNCHANGED <<calls, requested, issued>>
       ELSE /\ requested' = requested \cup {folder}
            /\ IF ~Truthy(Lookup(cachedFolders, folder))
               THEN /\ BagCardinality(calls) < MaxInflight
                    /\ calls' = StartRefreshFolder(calls, folder)
                    /\ issued' = TRUE
                    /\ ev' = [Ev("GET /api/images/(.+)", c, folder, 200, ArrayBody(<<>>),
                                 1, FALSE, "-") EXCEPT !.first = folder \notin requested]
               ELSE /\ ev' = [Ev("GET /api/images/(.+)", c, folder, 200,
                                 FolderBody(Lookup(cachedFolders, folder)), 0, FALSE, "-")
                                 EXCEPT !.first = folder \notin requested]
                    /\ UNCHANGED <<calls, issued>>
    /\ UNCHANGED <<entry, env, pc, envIdx, listening, timers, tickPhase, bucket,
                   cachedImages, cachedFolders, fullOK, failed, fired>>

\* server.js: app.get("/api/images"), up to await listObjects
GetImagesDirect(c) ==
    /\ pc = "running"
    /\ entry = "direct"
    /\ hits' = [hits EXCEPT ![c] = Hit(@, ImagesPath)]
    /\ apiCount' = [apiCount EXCEPT ![c] = Min(@ + 1, RateMax + 1)]
    /\ IF Limited(hits[c], ImagesPath)
       THEN /\ ev' = Ev("GET /api/images", c, <<>>, 429, TooMany, 0, FALSE, "-")
            /\ UNCHANGED <<calls, issued>>
       ELSE /\ BagCardinality(calls) < MaxInflight
            /\ calls' = calls (+) SetToBag({listObjects("GET /api/images", <<>>, c)})
            /\ issued' = TRUE
            /\ ev' = [Step("request") EXCEPT !.client = c]
    /\ UNCHANGED <<entry, env, pc, envIdx, listening, timers, tickPhase, bucket,
                   cachedImages, cachedFolders, requested, failed, fullOK, ticked, fired>>

\* server.js: app.get(/^\/api\/images\/(.+)$/), up to await listObjects
GetFolderDirect(c, folder) ==
    /\ pc = "running"
    /\ entry = "direct"
    /\ hits' = [hits EXCEPT ![c] = Hit(@, FolderPath(folder))]
    /\ apiCount' = [apiCount EXCEPT ![c] = Min(@ + 1, RateMax + 1)]
    /\ ticked' = IF Limited(hits[c], FolderPath(folder)) \/ folder \in requested
                 THEN ticked ELSE FALSE
    /\ IF Limited(hits[c], FolderPath(folder))
       THEN /\ ev' = Ev("GET /api/images/(.+)", c, folder, 429, TooMany, 0, FALSE, "-")
            /\ UNCHANGED <<calls, requested, issued>>
       ELSE /\ BagCardinality(calls) < MaxInflight
            /\ calls' = calls (+) SetToBag({[listObjects("GET /api/images/(.+)", folder, c)
                                                 EXCEPT !.first = folder \notin requested]})
            /\ requested' = requested \cup {folder}
            /\ issued' = TRUE
            /\ ev' = [Step("request") EXCEPT !.client = c, !.folder = folder]
    /\ UNCHANGED <<entry, env, pc, envIdx, listening, timers, tickPhase, bucket,
                   cachedImages, cachedFolders, fullOK, failed, fired>>

InternalServerError == [kind |-> "internalServerError", val |-> <<>>]

\* server.js: a route after its await: res.json(images), or asyncHandler's
\* catch(next) and the error middleware's res.status(500)
RouteDone(call) ==
    /\ pc = "running"
    /\ BagIn(call, calls)
    /\ call.owner \in {"GET /api/images", "GET /api/images/(.+)"}
    /\ calls' = Resumed(calls, call)
    /\ ev' = [Ev(call.owner, call.client, call.Prefix,
                 IF call.state = "ok" THEN 200 ELSE 500,
                 IF call.state = "ok" THEN ArrayBody(MapContents(call.data))
                                         ELSE InternalServerError,
                 0, TRUE, "-") EXCEPT !.first = call.first]
    /\ UNCHANGED <<entry, env, pc, envIdx, listening, timers, tickPhase, bucket,
                   cachedImages, cachedFolders, hits, requested, failed, issued, fullOK,
                   ticked, fired, apiCount>>

\* ------------------------------------------------------------------ Next
\* c has sent fewer than MaxBurst requests to /api/ in its current window
Light(c) == hits[c] < MaxBurst

\* startup, timers, store and completions: the steps no client takes
Server ==
    \/ CheckEnv
    \/ InitialRefresh
    \/ SetTimers
    \/ Listen
    \/ TickImages
    \/ TickFolders
    \/ \E call \in BagToSet(calls) : S3Send(call)
    \/ \E call \in BagToSet(calls) : RefreshImagesDone(call)
    \/ \E call \in BagToSet(calls) : RefreshFolderDone(call)
    \/ \E call \in BagToSet(calls) : RouteDone(call)

\* the requests of clients, those in `heavy` without a bound on their number
Requests(clients, heavy, folders) ==
    \/ \E c \in clients : WindowReset(c)
    \/ \E c \in clients : GetRoot(c)
    \/ \E c \in clients : (c \in heavy \/ Light(c)) /\ GetImagesCached(c)
    \/ \E c \in clients, f \in folders : (c \in heavy \/ Light(c)) /\ GetFolderCached(c, f)
    \/ \E c \in clients : (c \in heavy \/ Light(c)) /\ GetImagesDirect(c)
    \/ \E c \in clients, f \in folders : (c \in heavy \/ Light(c)) /\ GetFolderDirect(c, f)

\* one client with few requests per window, a bucket that changes
Next ==
    \/ Server
    \/ StoreChange
    \/ Requests({"c1"}, {}, FolderNames)

Spec == Init /\ [][Next]_vars

\* a bucket of more than one page
InitPaged == InitFrom({RequiredSet}, {BigBucket})

NextPaged ==
    \/ Server
    \/ Requests({"c1"}, {}, {<<"a">>, <<"constructor">>})

SpecPaged == InitPaged /\ [][NextPaged]_vars

\* a client that sends without pause beside one that does not
InitLimiter == InitFrom({RequiredSet}, {SmallBucket})

NextLimiter ==
    \/ Server
    \/ Requests(Clients, {"c1"}, {<<"a">>})

SpecLimiter == InitLimiter /\ [][NextLimiter]_vars

\* ================================================================ claims
\* the keys of a cached listing, in order
KeysOf(listing) == [i \in 1..Len(listing) |-> listing[i].key]

\* the objects of the bucket whose key starts with `${folder}/` (all for <<>>)
Under(objects, folder) == SelectSeq(objects, LAMBDA k : IsPrefix(folder, k.dir))

ListingRoutes == {"GET /api/images", "GET /api/images/(.+)"}

\* the last step sent the response of a listing route that the limiter let through
ListingResponse == ev.op \in ListingRoutes /\ ev.status \notin {0, 429}

\* ---------------------------------------------------------------------
\* C1: a failed refresh never changes the cache: when the store call of
\* refreshImages fails cachedImages stays as it was, and when the call of
\* refreshFolder(f) fails the entry of f stays as it was (same listing if
\* present, absent if absent) and no key is added or removed.
C1_FailedRefreshKeepsCache ==
    [][(ev'.outcome = "fail") =>
          /\ ev'.op = "refreshImages" => cachedImages' = cachedImages
          /\ ev'.op = "refreshFolder" =>
                /\ Lookup(cachedFolders', ev'.folder) = Lookup(cachedFolders, ev'.folder)
                /\ ObjectKeys(cachedFolders') = ObjectKeys(cachedFolders)]_vars

\* a refresh of a folder that holds a listing has just failed
C1_Witness ==
    /\ ev.op = "refreshFolder"
    /\ ev.outcome = "fail"
    /\ Lookup(cachedFolders, ev.folder).kind = "array"
    /\ Lookup(cachedFolders, ev.folder).val # <<>>
    /\ cachedImages # <<>>

\* ---------------------------------------------------------------------
\* C2: the first request for a folder that was never requested before is
\* answered with the empty array and starts exactly one refreshFolder.
C2_FirstRequestEmptyAndOnePopulation ==
    (entry = "cached" /\ ListingResponse /\ ev.op = "GET /api/images/(.+)" /\ ev.first) =>
        /\ ev.status = 200
        /\ ev.body = ArrayBody(<<>>)
        /\ ev.started = 1

\* ---------------------------------------------------------------------
\* C3: once a full refresh has succeeded, cachedImages, and with it every
\* answer of the caching server to GET /api/images, is exactly the Contents
\* of the store listing whose refresh completed successfully last: the same
\* keys in the same order, each with the url built from its key.  Refreshes
\* may be in flight together and complete in any order.
C3_FullListingIsLatestSuccess ==
    fullOK.any =>
        /\ Len(cachedImages) = Len(fullOK.contents)
        /\ \A i \in 1..Len(cachedImages) :
              /\ cachedImages[i].key = fullOK.contents[i]
              /\ cachedImages[i].url = <<"https://", BucketName, ".s3.", Region,
                                         ".amazonaws.com/", cachedImages[i].key>>
        /\ (ev.op = "GET /api/images" /\ ev.status = 200 /\ ~ev.awaited) =>
              ev.body = ArrayBody(cachedImages)

\* GET /api/images is answered from a populated cache while two full
\* refreshes are in flight and the bucket has changed since the cached listing
C3_Witness ==
    /\ ev.op = "GET /api/images"
    /\ ev.status = 200
    /\ fullOK.any
    /\ ev.body.val # <<>>
    /\ BagCardinality(calls) = 2
    /\ \A call \in BagToSet(calls) : call.owner = "refreshImages"
    /\ KeysOf(cachedImages) # bucket

\* ---------------------------------------------------------------------
\* C4: a listing produced for a prefix contains every object the store holds
\* under that prefix, in store order, also when the store needs more than one
\* page for them.  (The bucket does not change in SpecPaged.)
C4_ListingIsComplete ==
    /\ (ev.op = "refreshImages" /\ ev.outcome = "ok") =>
          KeysOf(cachedImages) = Under(bucket, <<>>)
    /\ (ev.op = "refreshFolder" /\ ev.outcome = "ok") =>
          KeysOf(Lookup(cachedFolders, ev.folder).val) = Under(bucket, ev.folder)

\* ---------------------------------------------------------------------
\* C5: no response of a listing route shows a store failure: each is a 200
\* with a JSON body that is not the error body, never a 500.
C5_StoreFailureInvisible ==
    ListingResponse => (ev.status = 200 /\ ev.body # InternalServerError)

\* ---------------------------------------------------------------------
\* C6: a read never sees a partially updated listing: in every state
\* cachedImages and every entry of cachedFolders is the initial empty listing
\* or the entries of the whole Contents of one store response for its prefix:
\* never a mix of two listings, never a part of one.
WholeListings ==
    [folder \in FolderNames \cup {<<>>} |->
        {MapContents(S3ListObjectsV2(b, folder, MaxKeys, 0)) : b \in Buckets \cup {BigBucket}}]

C6_SlotsHoldWholeListings ==
    /\ cachedImages \in {<<>>} \cup WholeListings[<<>>]
    /\ \A i \in 1..Len(cachedFolders) :
          /\ cachedFolders[i].name \in FolderNames
          /\ cachedFolders[i].val \in WholeListings[cachedFolders[i].name]

\* a request is answered with the old whole listing while a refresh whose
\* response holds a different listing has not yet completed
C6_Witness ==
    /\ ev.op = "GET /api/images"
    /\ ev.status = 200
    /\ ev.body.val # <<>>
    /\ \E call \in BagToSet(calls) :
          /\ call.owner = "refreshImages"
          /\ call.state = "ok"
          /\ MapContents(call.data) # cachedImages

\* ---------------------------------------------------------------------
\* C7: no listing request waits for the store: no store call completes
\* between the arrival of a listing request and its response.
C7_NoListingRequestAwaitsStore ==
    ListingResponse => ~ev.awaited

\* ---------------------------------------------------------------------
\* C8: once folder f has been requested, a folder tick has fired since, the
\* store has answered (f is populated) and no call is pending, the caching
\* server answers GET /api/images/{f} with exactly the store's objects whose
\* key starts with f + "/".  (The bucket does not change in SpecPaged.)
C8_FolderListingExact ==
    (/\ entry = "cached"
     /\ ListingResponse
     /\ ev.op = "GET /api/images/(.+)"
     /\ ~ev.first
     /\ ticked
     /\ OwnIndex(cachedFolders, ev.folder) # 0
     /\ BagCardinality(calls) = 0) =>
        /\ ev.body.kind = "array"
        /\ KeysOf(ev.body.val) = Under(bucket, ev.folder)

\* ---------------------------------------------------------------------
\* C9: of the requests one client sends to paths under /api/ in one window,
\* the first 60 reach the route and every further one gets the rate-limit
\* rejection; requests to / are never rejected and never counted; after the
\* window has passed the count starts again.
ApiRequestHandled ==
    /\ ev.op \in ListingRoutes \cup {"request"}
    /\ ~ev.awaited

C9_SixtyPerWindow ==
    /\ ApiRequestHandled => (ev.status = 429 <=> apiCount[ev.client] > 60)
    /\ ev.op = "GET /" => ev.status = 200
    /\ \A c \in Clients : hits[c] = apiCount[c]

\* the 61st request of c1 in a window is rejected while c2 has sent one
C9_Witness ==
    /\ ApiRequestHandled
    /\ ev.client = "c1"
    /\ ev.status = 429
    /\ apiCount["c1"] = 61
    /\ apiCount["c2"] = 1

\* ---------------------------------------------------------------------
\* C10: with one of the four required settings missing the process never
\* binds the listener, never issues a store call and never sets a timer: it
\* is still checking the environment or has exited; the server listens only
\* when all four are set.
C10_NoStartWithoutConfig ==
    /\ ~(RequiredSet \subseteq env) =>
          /\ pc \in {"checkenv", "exited"}
          /\ ~listening
          /\ ~issued
          /\ ~timers
          /\ BagCardinality(calls) = 0
    /\ pc = "exited" => ~(RequiredSet \subseteq env)
    /\ pc \notin {"checkenv", "exited"} => RequiredSet \subseteq env

\* the process has exited on the last of the four settings, the others set
C10_Witness ==
    /\ pc = "exited"
    /\ env = RequiredSet \ {"AWS_SECRET_KEY"}
    /\ envIdx = 4

\* ---------------------------------------------------------------------
\* the store call refreshFolder(folder) sends
RefreshCall(folder) == listObjects("refreshFolder", folder, "-")

\* C11 (as stated): once a folder has been requested, every following folder
\* tick starts a refreshFolder for it, whatever became of its first population.
C11_RequestedRefreshedEveryTick ==
    [][(ev'.op = "tickFolders") =>
          \A f \in requested :
              CopiesIn(RefreshCall(f), calls') = CopiesIn(RefreshCall(f), calls) + 1]_vars

\* C11 (amended): once a folder is a key of cachedFolders (a population of it
\* has succeeded), every following folder tick starts a refreshFolder for it,
\* and no step ever removes a key or changes the order of the keys.
C11_KeysRefreshedEveryTick ==
    [][/\ (ev'.op = "tickFolders") =>
             \A i \in 1..Len(cachedFolders) :
                 CopiesIn(RefreshCall(cachedFolders[i].name), calls')
                     = CopiesIn(RefreshCall(cachedFolders[i].name), calls) + 1
       /\ Len(cachedFolders') >= Len(cachedFolders)
       /\ \A i \in 1..Len(cachedFolders) :
             cachedFolders'[i].name = cachedFolders[i].name]_vars

\* a folder tick has just refreshed two cached folders while a third folder
\* that was requested is not a key
C11_Witness ==
    /\ ev.op = "tickFolders"
    /\ ev.started = 2
    /\ Len(cachedFolders) = 2
    /\ \E f \in requested : OwnIndex(cachedFolders, f) = 0

\* ---------------------------------------------------------------------
\* C12: the full-refresh timer fires before the folder timer in every round:
\* a folder tick happens only after the tick that started a refreshImages, and
\* the next full tick only after the folder tick.  A folder tick starts one
\* refreshFolder(name) for each key cachedFolders has when it fires and for no
\* other name, and no refreshImages.  The step that adds a key starts nothing:
\* the new key is first refreshed by the folder tick that follows.
C12_TickRefreshesExactlyTheKeys ==
    [][/\ (ev'.op = "tickImages") =>
             /\ tickPhase = "images" /\ tickPhase' = "folders"
             /\ CopiesIn(listObjects("refreshImages", <<>>, "-"), calls')
                   = CopiesIn(listObjects("refreshImages", <<>>, "-"), calls) + 1
             /\ BagCardinality(calls') = BagCardinality(calls) + 1
       /\ (ev'.op = "tickFolders") =>
             /\ tickPhase = "folders" /\ tickPhase' = "images"
             /\ \A f \in FolderNames :
                   CopiesIn(RefreshCall(f), calls')
                      = CopiesIn(RefreshCall(f), calls)
                           + (IF OwnIndex(cachedFolders, f) # 0 THEN 1 ELSE 0)
             /\ BagCardinality(calls') = BagCardinality(calls) + Len(cachedFolders)
       /\ (tickPhase' # tickPhase) => ev'.op \in {"tickImages", "tickFolders"}
       /\ (Len(cachedFolders') > Len(cachedFolders)) =>
             /\ ev'.op = "refreshFolder"
             /\ BagCardinality(calls') = BagCardinality(calls) - 1
             /\ \A f \in FolderNames :
                   CopiesIn(RefreshCall(f), calls') <= CopiesIn(RefreshCall(f), calls)]_vars

\* a folder tick has refreshed the one key there is while the first
\* population of another folder is in flight
C12_Witness ==
    /\ ev.op = "tickFolders"
    /\ ev.started = 1
    /\ Len(cachedFolders) = 1
    /\ \E call \in BagToSet(calls) :
          /\ call.owner = "refreshFolder"
          /\ OwnIndex(cachedFolders, call.Prefix) = 0

\* ---------------------------------------------------------------------
\* C13: when a population of a folder without entry fails, the folder stays
\* without entry and the failing step starts no store call; a store call for
\* a folder is started only by a folder tick or by a request for that folder;
\* and a request for a folder whose population has failed gets the empty array
\* and starts one new refreshFolder for it.
C13_FailedPopulationRetriedOnRequest ==
    [][/\ (ev'.op = "refreshFolder" /\ ev'.outcome = "fail"
              /\ OwnIndex(cachedFolders, ev'.folder) = 0) =>
             /\ OwnIndex(cachedFolders', ev'.folder) = 0
             /\ ev'.folder \in failed'
             /\ BagCardinality(calls') = BagCardinality(calls) - 1
       /\ \A f \in failed' : OwnIndex(cachedFolders', f) = 0
       /\ \A f \in FolderNames :
             (CopiesIn(RefreshCall(f), calls') > CopiesIn(RefreshCall(f), calls)) =>
                 \/ ev'.op = "tickFolders"
                 \/ ev'.op = "GET /api/images/(.+)" /\ ev'.folder = f
       /\ (ev'.op = "GET /api/images/(.+)" /\ ev'.status = 200 /\ ev'.folder \in failed) =>
             /\ ev'.body = ArrayBody(<<>>)
             /\ ev'.started = 1
             /\ CopiesIn(RefreshCall(ev'.folder), calls')
                   = CopiesIn(RefreshCall(ev'.folder), calls) + 1]_vars

\* a request for a folder whose population had failed has been answered with
\* the empty array and has started a second population
C13_Witness ==
    /\ ev.op = "GET /api/images/(.+)"
    /\ ev.folder \in failed
    /\ ~ev.first
    /\ ev.body = ArrayBody(<<>>)
    /\ ev.started = 1
    /\ CopiesIn(RefreshCall(ev.folder), calls) = 1

\* ---------------------------------------------------------------------
\* C14: while the server runs, the handler's test cachedFolders[folder] is
\* truthy only for a folder that has been requested and whose population has
\* succeeded (it is an own key of cachedFolders); for a name that was never
\* requested the test reports absence.
C14_LookupTruthyOnlyForPopulated ==
    (pc = "running" /\ entry = "cached") =>
        \A f \in FolderNames :
            Truthy(Lookup(cachedFolders, f)) =>
                (f \in requested /\ OwnIndex(cachedFolders, f) # 0)

\* ---------------------------------------------------------------------
\* the completion of refresh `call` is possible now
CanComplete(call) ==
    IF call.owner = "refreshImages" THEN ENABLED RefreshImagesDone(call)
    ELSE IF call.owner = "refreshFolder" THEN ENABLED RefreshFolderDone(call)
    ELSE ENABLED RouteDone(call)

\* GET / is answered in every state in which the server runs, whatever is in
\* flight: a condition on the state before that step is a condition on every
\* such state
AnyRunningState == pc = "running" /\ ev'.op = "GET /"

\* C15: refreshes are independent.  A failing refresh leaves the process
\* running, the timers set, every other call in flight and every slot as they
\* were.  While the server runs, each refresh in flight can be answered and
\* can complete whatever other calls are pending, and the timers can fire
\* (as long as the bound on calls in flight allows one more per key); a
\* refresh that completes successfully puts its own listing into its own
\* slot.  The process never stops once it runs, and the timers stay set.
C15_RefreshesIndependent ==
    [][/\ (ev'.op \in {"refreshImages", "refreshFolder"} /\ ev'.outcome = "fail") =>
             /\ pc' = "running" /\ timers' /\ tickPhase' = tickPhase
             /\ \E call \in BagToSet(calls) :
                   call.state = "sent" /\ calls' = calls (-) SetToBag({call})
             /\ cachedImages' = cachedImages
             /\ cachedFolders' = cachedFolders
       /\ (ev'.op = "refreshImages" /\ ev'.outcome = "ok") =>
             \E call \in BagToSet(calls) :
                 /\ call.owner = "refreshImages"
                 /\ calls' = calls (-) SetToBag({call})
                 /\ cachedImages' = MapContents(call.data)
       /\ (ev'.op = "refreshFolder" /\ ev'.outcome = "ok") =>
             \E call \in BagToSet(calls) :
                 /\ call.owner = "refreshFolder" /\ call.Prefix = ev'.folder
                 /\ calls' = calls (-) SetToBag({call})
                 /\ Lookup(cachedFolders', ev'.folder) = ArrayBody(MapContents(call.data))
       /\ (pc = "running") => pc' = "running"
       /\ timers => timers'
       /\ AnyRunningState =>
             /\ \A call \in BagToSet(calls) :
                   /\ CanComplete(call)
                   /\ call.state = "sent" => ENABLED S3Send(call)
             /\ (timers /\ BagCardinality(calls) + Len(cachedFolders) < MaxInflight) =>
                   ENABLED (TickImages \/ TickFolders)]_vars

\* the full refresh has completed and filled its slot after the population
\* of a folder had failed and while another folder call is still unanswered
C15_Witness ==
    /\ ev.op = "refreshImages"
    /\ ev.outcome = "ok"
    /\ cachedImages # <<>>
    /\ failed # {}
    /\ \E call \in BagToSet(calls) : call.owner = "refreshFolder" /\ call.state = "sent"

\* ---------------------------------------------------------------------
RouteOps == {"GET /", "GET /api/images", "GET /api/images/(.+)", "request"}

\* C16: cachedImages changes only in the step that completes a successful
\* refreshImages and cachedFolders only in the step that completes a
\* successful refreshFolder; the steps of the three routes change neither; a
\* completing refreshImages leaves cachedFolders alone, and a completing
\* refreshFolder(f) leaves cachedImages, the entry of every other folder and
\* the other keys alone.
C16_OnlyRefreshesWrite ==
    [][/\ (cachedImages' # cachedImages) =>
             (ev'.op = "refreshImages" /\ ev'.outcome = "ok")
       /\ (cachedFolders' # cachedFolders) =>
             (ev'.op = "refreshFolder" /\ ev'.outcome = "ok")
       /\ (ev'.op \in RouteOps) =>
             (cachedImages' = cachedImages /\ cachedFolders' = cachedFolders)
       /\ (ev'.op = "refreshImages") => cachedFolders' = cachedFolders
       /\ (ev'.op = "refreshFolder") =>
             /\ cachedImages' = cachedImages
             /\ \A f \in FolderNames \ {ev'.folder} :
                   /\ Lookup(cachedFolders', f) = Lookup(cachedFolders, f)
                   /\ OwnIndex(cachedFolders', f) = OwnIndex(cachedFolders, f)]_vars

\* refreshFolder("b") has just stored the empty listing of the changed bucket
\* while the entry of a still holds the two objects of the bucket before
C16_Witness ==
    /\ ev.op = "refreshFolder"
    /\ ev.outcome = "ok"
    /\ ev.folder = <<"b">>
    /\ Lookup(cachedFolders, <<"b">>) = ArrayBody(<<>>)
    /\ Len(Lookup(cachedFolders, <<"a">>).val) = 2
    /\ cachedImages # <<>>

\* ---------------------------------------------------------------------
\* the refreshImages calls in flight
FullCalls == {call \in BagToSet(calls) : call.owner = "refreshImages"}

\* C17: in the caching server cachedImages is empty until a refreshImages has
\* succeeded, and GET /api/images is answered with [] until then.  Before the
\* startup call no store call exists; from the startup call until the server
\* runs exactly one refreshImages call is in flight, no timer has fired and no
\* request has been handled; until the first timer fires no second
\* refreshImages is started, whatever the clients request.  The startup call
\* can be answered as soon as the server runs and can complete as soon as it
\* is answered, without any timer having fired.
C17_OneRefreshAtStart ==
    (entry = "cached") =>
        /\ (pc \in {"checkenv", "initial", "exited"}) =>
              (calls = EmptyBag /\ cachedImages = <<>> /\ ~timers /\ ~fired)
        /\ (pc \in {"timers", "listen"}) =>
              /\ BagCardinality(calls) = 1
              /\ Cardinality(FullCalls) = 1
              /\ cachedImages = <<>>
              /\ ~fired
              /\ requested = {}
        /\ (pc = "running" /\ ev.op = "boot") =>
              (BagCardinality(calls) = 1 /\ Cardinality(FullCalls) = 1)
        /\ ~fired =>
              /\ Cardinality(FullCalls) <= 1
              /\ \A call \in FullCalls : CopiesIn(call, calls) = 1
        /\ (pc = "running" /\ ~fired) =>
              \A call \in FullCalls :
                  /\ call.state = "sent" => ENABLED S3Send(call)
                  /\ ENABLED RefreshImagesDone(call)
        /\ ~fullOK.any =>
              /\ cachedImages = <<>>
              /\ (ev.op = "GET /api/images" /\ ev.status = 200) => ev.body = ArrayBody(<<>>)

\* GET /api/images is answered with the listing of the startup refresh
\* before either timer has fired
C17_Witness ==
    /\ entry = "cached"
    /\ ev.op = "GET /api/images"
    /\ ev.status = 200
    /\ ev.body.val # <<>>
    /\ ~fired

\* ---------------------------------------------------------------------
\* folder has an entry in cachedFolders and the entry is the empty array
CachedEmpty(obj, folder) ==
    OwnIndex(obj, folder) # 0 /\ Lookup(obj, folder) = ArrayBody(<<>>)

\* C18: a refreshFolder(f) whose store response holds no objects makes f a
\* key of cachedFolders with the value []; a request for a folder whose entry
\* is [] is answered with [] and starts no store call; and every folder tick
\* starts a refreshFolder for each folder whose entry is [].
C18_EmptyListingIsCached ==
    [][/\ \A call \in BagToSet(calls) :
             (/\ ev'.op = "refreshFolder"
              /\ call.owner = "refreshFolder"
              /\ call.state = "ok"
              /\ ~call.data.hasContents
              /\ calls' = calls (-) SetToBag({call})) =>
                 CachedEmpty(cachedFolders', call.Prefix)
       /\ (ev'.op = "GET /api/images/(.+)" /\ ev'.status = 200
              /\ CachedEmpty(cachedFolders, ev'.folder)) =>
             /\ ev'.body = ArrayBody(<<>>)
             /\ ev'.started = 0
             /\ calls' = calls
             /\ CachedEmpty(cachedFolders', ev'.folder)
       /\ (ev'.op = "tickFolders") =>
             \A f \in FolderNames :
                 CachedEmpty(cachedFolders, f) =>
                     CopiesIn(RefreshCall(f), calls') = CopiesIn(RefreshCall(f),
                   calls) + 1]_vars

\* a request for b has been answered from the entry [] that a successful
\* refreshFolder("b") had stored, and has started nothing
C18_Witness ==
    /\ ev.op = "GET /api/images/(.+)"
    /\ ev.status = 200
    /\ ev.folder = <<"b">>
    /\ CachedEmpty(cachedFolders, <<"b">>)
    /\ ev.body = ArrayBody(<<>>)
    /\ ev.started = 0
    /\ calls = EmptyBag
    /\ fired

\* ---------------------------------------------------------------------
\* C19: with several refreshes of one slot in flight, any of them can
\* complete next; the one that completes successfully puts the listing of its
\* own store response into the slot, whatever the slot holds and whatever the
\* other calls in flight hold, and no other step changes the slot: the slot
\* holds the listing of the refresh that completed successfully last.
C19_CompletionOrderDecides ==
    [][/\ \A call \in BagToSet(calls) :
             (/\ call.state = "ok"
              /\ ev'.op = call.owner
              /\ ev'.outcome = "ok"
              /\ calls' = calls (-) SetToBag({call})) =>
                 /\ (call.owner = "refreshImages") =>
                       cachedImages' = MapContents(call.data)
                 /\ (call.owner = "refreshFolder") =>
                       Lookup(cachedFolders', call.Prefix)
                           = ArrayBody(MapContents(call.data))
       /\ ~(ev'.op = "refreshImages" /\ ev'.outcome = "ok") => cachedImages' = cachedImages
       /\ \A f \in FolderNames :
             ~(ev'.op = "refreshFolder" /\ ev'.outcome = "ok" /\ ev'.folder = f) =>
                 Lookup(cachedFolders', f) = Lookup(cachedFolders, f)
       /\ AnyRunningState =>
             \A call \in BagToSet(calls) :
                 (call.owner \in {"refreshImages", "refreshFolder"}) => CanComplete(call)]_vars

\* a refreshFolder("a") answered after the bucket had changed has completed
\* and its listing is in the slot, while a refreshFolder("a") that was
\* answered before the change, and holds the older listing, is still to complete
C19_Witness ==
    /\ ev.op = "refreshFolder"
    /\ ev.outcome = "ok"
    /\ ev.folder = <<"a">>
    /\ bucket = AltBucket
    /\ KeysOf(Lookup(cachedFolders, <<"a">>).val) = Under(AltBucket, <<"a">>)
    /\ \E call \in BagToSet(calls) :
          /\ call.owner = "refreshFolder"
          /\ call.Prefix = <<"a">>
          /\ call.state = "ok"
          /\ call.data.Contents = Under(SmallBucket, <<"a">>)

\* ---------------------------------------------------------------------
\* a population of folder is in flight, or the last one failed
PopulationPending(folder) ==
    \/ folder \in failed
    \/ \E call \in BagToSet(calls) : call.owner = "refreshFolder" /\ call.Prefix = folder

\* C20: a request for a folder that has no entry while a population of it is
\* in flight or has failed is answered with [] and starts one more
\* refreshFolder for it, beside those in flight; a request for a folder that
\* has an entry is answered with the entry and starts no store call.
C20_PopulationsNotDeduplicated ==
    [][/\ (/\ ev'.op = "GET /api/images/(.+)"
           /\ ev'.status = 200
           /\ OwnIndex(cachedFolders, ev'.folder) = 0
           /\ PopulationPending(ev'.folder)) =>
              /\ ev'.body = ArrayBody(<<>>)
              /\ ev'.started = 1
              /\ calls' = calls (+) SetToBag({RefreshCall(ev'.folder)})
              /\ BagCardinality(calls') = BagCardinality(calls) + 1
       /\ (/\ ev'.op = "GET /api/images/(.+)"
           /\ ev'.status = 200
           /\ OwnIndex(cachedFolders, ev'.folder) # 0) =>
              /\ ev'.body = ArrayBody(cachedFolders[OwnIndex(cachedFolders, ev'.folder)].val)
              /\ ev'.started = 0
              /\ calls' = calls]_vars

\* the second request for a has been answered with [] while the population
\* the first request started was unanswered: two listings of a/ are in flight
C20_Witness ==
    /\ ev.op = "GET /api/images/(.+)"
    /\ ev.folder = <<"a">>
    /\ ~ev.first
    /\ ev.body = ArrayBody(<<>>)
    /\ ev.started = 1
    /\ OwnIndex(cachedFolders, <<"a">>) = 0
    /\ CopiesIn(RefreshCall(<<"a">>), calls) = 2

====
